---- MODULE Spec2Model ----
(***************************************************************************)
(* Model of buildingspy.simulate: _BaseSimulator (base_simulator.py) and   *)
(* its subclasses Dymola (Dymola.py) and Optimica (Optimica.py).           *)
(*                                                                         *)
(* One simulator instance is modelled.  `self` holds its class and its     *)
(* attributes; an attribute that no statement has assigned yet is not in   *)
(* self.attrs, and reading it raises AttributeError, as in Python.  The    *)
(* instance is the one __new__ allocated: __init__ is the first method run *)
(* on it, and the methods below are applied to the attribute state that    *)
(* __init__ left, whether it returned or raised.  A method that the        *)
(* method-resolution order does not find (super().m() with m not defined   *)
(* by _BaseSimulator) raises AttributeError at the call.                   *)
(*                                                                         *)
(* `fs` is the file system, `call` the outcome of the last ended call      *)
(* (operation, argument, exception that left it or "none", return value).  *)
(***************************************************************************)
EXTENDS Integers, Sequences, FiniteSets, TLC

VARIABLES self, fs, nextTmp, simLog, call

vars == <<self, fs, nextTmp, simLog, call>>

(* ---------------------------------------------------------------- bounds *)

\* temporary directories tempfile.mkdtemp may create in one behaviour
MaxTmp == 1
\* messages the reporter keeps in one behaviour
MaxErrors == 1
\* statements in each of the pre- and post-processing lists
MaxStmts == 2

(* ------------------------------------------------------------ input sets *)

None == "None"

Classes == {"_BaseSimulator", "Dymola", "Optimica"}

\* model names as the list of their dot-separated components
ModelNames == {<<"myPackage", "myModel">>, <<"M">>}

\* absolute path of the current directory, os.path.abspath('.')
CwdAbs == "/cwd"

\* paths handed to the constructor and to setPackagePath
PathArgs == {"pkgA", "pkgB", "file1", "missing"}
\* output directories handed to the constructor
OutDirArgs == {".", "", "missing", "ro"}

\* directories and regular files that exist when the program starts
InitDirs == {CwdAbs, ".", "pkgA", "pkgB", "ro"}
InitFiles == {"file1"}
\* output files of an earlier run in the current directory, as <<name, extension>>
InitResults == {<<"myModel", ".mat">>, <<"myModel", "_result.mat">>}
\* directories os.access(d, os.W_OK) refuses
ReadOnly == {"ro"}

StartTimes == {0, 5}
StopTimes == {1, 10}
Tolerances == {"1E-6", "1E-4"}
Solvers == {"radau", "dassl"}
TimeOuts == {-1, 30}
Statements == {"A;", "B;"}

\* error lines a simulator.log may hold
ErrorLines == {"Error: e1", "Error: e2"}
\* the lines a simulator.log may hold
LogContents ==
  {<<"ok">>, <<"ok", "Error: e1">>, <<"Error: e1", "Warning: w", "Error: e2">>}

(* --------------------------------------------------------- Python helpers *)

\* the methods class _BaseSimulator defines (its base class is object)
BaseMethods ==
  {"__init__", "setPackagePath", "_createDirectory", "getOutputDirectory",
   "setOutputDirectory", "getPackagePath", "setStartTime", "setStopTime",
   "setTolerance", "setSolver", "_deleteFiles", "_deleteTemporaryDirectory",
   "deleteSimulateDirectory", "_isExecutable", "_create_worDir", "setTimeOut",
   "setResultFile"}

\* the methods class Dymola defines
DymolaMethods ==
  {"__init__", "addPreProcessingStatement", "addPostProcessingStatement",
   "getSimulatorSettings", "exitSimulator", "showProgressBar", "_get_dymola_commands",
   "addParameters", "getParameters", "addModelModifier", "simulate", "translate",
   "setSolver", "showGUI", "_runSimulation", "_check_simulation_errors",
   "setPackagePath", "getOutputDirectory", "setOutputDirectory", "getPackagePath",
   "setStartTime", "setStopTime", "setTolerance", "setNumberOfIntervals",
   "deleteSimulateDirectory", "setTimeOut", "setResultFile", "deleteOutputFiles",
   "deleteLogFiles"}

\* the methods class Optimica defines
OptimicaMethods == {"__init__", "simulate", "translate", "deleteOutputFiles", "deleteLogFiles"}

\* self.m on an instance of class c: the class, then _BaseSimulator, then object
Resolves(c, m) ==
  \/ m \in BaseMethods
  \/ c = "Dymola" /\ m \in DymolaMethods
  \/ c = "Optimica" /\ m \in OptimicaMethods

\* the parameters _BaseSimulator.__init__ accepts besides self
BaseInitParams == {"modelName", "outputDirectory", "packagePath"}

\* the keyword arguments with which class c calls _BaseSimulator.__init__
InitKeywords(c) ==
  IF c = "_BaseSimulator"
  THEN {"modelName", "outputDirectory", "packagePath"}
  ELSE {"modelName", "outputDirectory", "packagePath", "outputFileList", "logFileList"}

EmptyDict == [k \in {} |-> None]

\* dict.update(k=v)
Update(d, k, v) == [x \in DOMAIN d \cup {k} |-> IF x = k THEN v ELSE d[x]]

\* dict.get(k): None when the key is absent
Get(d, k) == IF k \in DOMAIN d THEN d[k] ELSE None

\* dict.get(k) as the template renders it: <<>> for None, <<v>> for the value v
Rendered(d, k) == IF k \in DOMAIN d THEN <<d[k]>> ELSE <<>>

Has(s, a) == a \in s.attrs

\* self.a = v
SetAttr(s, a, v) == [s EXCEPT ![a] = v, !.attrs = @ \cup {a}]

\* a working directory: the temporary directory `tmp` (0: none) joined with `name`;
\* fs.tmp: the temporary directories on disk, fs.wor: the working directories on
\* disk, fs.copied: those of them that shutil.copytree filled with the package
WorDir(t, n) == [tmp |-> t, name |-> n]
NoneDir == WorDir(-1, None)

\* the run script of a working directory: where it is, the time-out rendered into it
Script(d, t) == [dir |-> d, time_out |-> t]
NoScript == Script(NoneDir, <<>>)

\* what a call hands back: the instance, the file system, the exception, the value
Result(s, f, e, r) == [self |-> s, fs |-> f, exc |-> e, ret |-> r]
Returns(s, f) == Result(s, f, "none", None)
Raises(s, f, e) == Result(s, f, e, None)

\* os.path.exists, os.path.isdir on the plain paths of the model
Exists(f, p) == p \in f.dirs \cup f.files
IsDir(f, p) == p \in f.dirs

(* ------------------------------------------------------------------ state *)

\* the instance as object.__new__ leaves it: no attribute assigned
NewInstance(c) ==
  [cls |-> c, attrs |-> {},
   modelName |-> <<>>,
   _packagePath |-> None,
   _simulator_ |-> EmptyDict,
   _outputDir_ |-> None,
   _simulateDir_ |-> NoneDir,
   _MODELICA_EXE |-> None,
   _reporter |-> <<>>,
   _preProcessing_ |-> <<>>,
   _postProcessing_ |-> <<>>,
   _parameters_ |-> EmptyDict,
   _exitSimulator |-> FALSE,
   _showGUI |-> FALSE]

Init ==
  /\ self = NewInstance("none")
  /\ fs = [dirs |-> InitDirs, files |-> InitFiles, results |-> InitResults,
           tmp |-> {}, wor |-> {}, copied |-> {}, script |-> NoScript]
  /\ nextTmp = 1
  /\ simLog \in LogContents
  /\ call = [op |-> "none", arg |-> None, exc |-> "none", ret |-> None]

(* ------------------------------------- buildingspy.io.reporter.Reporter *)

Message(k, d, x) == [kind |-> k, dir |-> d, text |-> x]

\* self._reporter.writeError(m): the reporter keeps the message
writeError(s, f, m) ==
  IF ~Has(s, "_reporter") THEN Raises(s, f, "AttributeError")
  ELSE Returns([s EXCEPT !._reporter = Append(@, m)], f)

\* r, or what F does with the instance and file system r left when r returned
Bind(r, F(_, _)) == IF r.exc # "none" THEN r ELSE F(r.self, r.fs)

(* ---------------------------------------------------------- _BaseSimulator *)

\* setPackagePath without the os.path.isdir check
setPackagePath_NoDirCheck(s, f, packagePath) ==
  IF ~Exists(f, packagePath) THEN Raises(s, f, "ValueError")
  ELSE Returns(SetAttr(s, "_packagePath", packagePath), f)

setPackagePath(s, f, packagePath) ==
  IF ~Exists(f, packagePath) THEN Raises(s, f, "ValueError")
  ELSE IF ~IsDir(f, packagePath) THEN Raises(s, f, "ValueError")
  ELSE Returns(SetAttr(s, "_packagePath", packagePath), f)

_createDirectory(s, f, directoryName) ==
  IF directoryName = "." THEN Returns(s, f)
  ELSE IF directoryName = "" THEN Raises(s, f, "ValueError")
  ELSE LET f1 == IF Exists(f, directoryName) THEN f
                 ELSE [f EXCEPT !.dirs = @ \cup {directoryName}]
       IN IF directoryName \in ReadOnly THEN Raises(s, f1, "ValueError")
          ELSE Returns(s, f1)

getPackagePath(s, f) ==
  IF ~Has(s, "_packagePath") THEN Raises(s, f, "AttributeError")
  ELSE Result(s, f, "none", s._packagePath)

\* self._simulator_.update(key=value)
SimulatorUpdate(s, f, key, value) ==
  IF ~Has(s, "_simulator_") THEN Raises(s, f, "AttributeError")
  ELSE Returns([s EXCEPT !._simulator_ = Update(@, key, value)], f)

setStartTime(s, f, t0) == SimulatorUpdate(s, f, "t0", t0)

setStopTime(s, f, t1) == SimulatorUpdate(s, f, "t1", t1)

setTolerance(s, f, eps) == SimulatorUpdate(s, f, "eps", eps)

setSolver(s, f, solver) == SimulatorUpdate(s, f, "solver", solver)

setTimeOut(s, f, sec) == SimulatorUpdate(s, f, "timeout", sec)

\* resultFile is the list rs of its dot-separated components; rs[len(rs) - 1] is kept
setResultFile(s, f, resultFile) ==
  SimulatorUpdate(s, f, "resultFile", resultFile[Len(resultFile)])

\* one round of the loop of _deleteFiles; fil is <<name, extension>>, and
\* os.remove of an output file that exists succeeds
DeleteFile(s, f, fil) ==
  IF fil \in f.results THEN Returns(s, [f EXCEPT !.results = @ \ {fil}])
  ELSE Returns(s, f)

RECURSIVE _deleteFiles(_, _, _)
_deleteFiles(s, f, fileList) ==
  IF fileList = <<>> THEN Returns(s, f)
  ELSE Bind(DeleteFile(s, f, Head(fileList)),
            LAMBDA s1, f1 : _deleteFiles(s1, f1, Tail(fileList)))

\* shutil.rmtree of temporary directory t with all it holds
RmTree(f, t) ==
  [f EXCEPT !.tmp = @ \ {t}, !.wor = {w \in @ : w.tmp # t},
            !.copied = {w \in @ : w.tmp # t}]

\* os.path.split(worDir)[0] is the temporary directory; a plain path has none,
\* and its parent does not contain 'tmp-simulator-'
_deleteTemporaryDirectory(s, f, worDir) ==
  IF worDir = NoneDir THEN Returns(s, f)
  ELSE IF worDir.tmp = 0
       THEN writeError(s, f, Message("FailedToDelete", worDir, "not a valid directory name"))
       ELSE IF worDir \in f.wor THEN Returns(s, RmTree(f, worDir.tmp))
            ELSE Returns(s, f)

deleteSimulateDirectory(s, f) ==
  IF ~Has(s, "_simulateDir_") THEN Raises(s, f, "AttributeError")
  ELSE _deleteTemporaryDirectory(s, f, s._simulateDir_)

\* the last component of os.path.abspath(p)
DirNam(p) == IF p \in {".", CwdAbs} THEN "cwd" ELSE p

\* n: the temporary directory tempfile.mkdtemp makes; the joined path is
\* returned and not created
_create_worDir(s, f, n) ==
  IF ~Has(s, "_packagePath") THEN Raises(s, f, "AttributeError")
  ELSE IF s._packagePath = None THEN Raises(s, f, "TypeError")
  ELSE Result(s, [f EXCEPT !.tmp = @ \cup {n}], "none", WorDir(n, DirNam(s._packagePath)))

_BaseSimulator__init__(s, f, kw, modelName, outputDirectory, packagePath) ==
  IF ~(kw \subseteq BaseInitParams) THEN Raises(s, f, "TypeError")
  ELSE
    LET s1 == SetAttr(s, "_packagePath", None)
        r1 == setPackagePath(s1, f, IF packagePath = None THEN CwdAbs ELSE packagePath)
        Fields(s2, f2) ==
          Returns(SetAttr(SetAttr(SetAttr(SetAttr(s2,
                    "modelName", modelName),
                    "_simulator_", EmptyDict),
                    "_outputDir_", outputDirectory),
                    "_simulateDir_", NoneDir), f2)
        r2 == Bind(r1, Fields)
        r3 == Bind(r2, LAMBDA a, b : _createDirectory(a, b, outputDirectory))
        r4 == Bind(r3, LAMBDA a, b : setResultFile(a, b, modelName))
        r5 == Bind(r4, LAMBDA a, b : setStartTime(a, b, 0))
        r6 == Bind(r5, LAMBDA a, b : setStopTime(a, b, 1))
        r7 == Bind(r6, LAMBDA a, b : setTolerance(a, b, "1E-6"))
        r8 == Bind(r7, LAMBDA a, b : setTimeOut(a, b, -1))
        Last(s9, f9) ==
          Returns(SetAttr(SetAttr(s9, "_MODELICA_EXE", None), "_reporter", <<>>), f9)
    IN Bind(r8, Last)

(* ------------------------------------------------------------------ Dymola *)

Dymola__init__(s, f, modelName, outputDirectory, packagePath) ==
  LET r0 == _BaseSimulator__init__(s, f, InitKeywords("Dymola"),
                                   modelName, outputDirectory, packagePath)
      Lists(s1, f1) ==
        Returns(SetAttr(SetAttr(s1, "_preProcessing_", <<>>), "_postProcessing_", <<>>), f1)
      r1 == Bind(r0, Lists)
      r2 == Bind(r1, LAMBDA a, b : setStartTime(a, b, 0))
      r3 == Bind(r2, LAMBDA a, b : setStopTime(a, b, 1))
      r4 == Bind(r3, LAMBDA a, b : setResultFile(a, b, <<modelName[Len(modelName)]>>))
      r5 == Bind(r4, LAMBDA a, b : setSolver(a, b, "radau"))
      Last(s9, f9) ==
        Returns(SetAttr(SetAttr(s9, "_MODELICA_EXE", "dymola"), "_showGUI", FALSE), f9)
  IN Bind(r5, Last)

addPreProcessingStatement(s, f, command) ==
  IF ~Has(s, "_preProcessing_") THEN Raises(s, f, "AttributeError")
  ELSE Returns([s EXCEPT !._preProcessing_ = Append(@, command)], f)

addPostProcessingStatement(s, f, command) ==
  IF ~Has(s, "_postProcessing_") THEN Raises(s, f, "AttributeError")
  ELSE Returns([s EXCEPT !._postProcessing_ = Append(@, command)], f)

exitSimulator(s, f, exitAfterSimulation) ==
  Returns(SetAttr(s, "_exitSimulator", exitAfterSimulation), f)

\* list(self._parameters_.items())
getParameters(s, f) ==
  IF ~Has(s, "_parameters_") THEN Raises(s, f, "AttributeError")
  ELSE Result(s, f, "none", s._parameters_)

\* one statement of the generated script
Stmt(k, x) == [kind |-> k, text |-> x]

Stmts(k, list) == [i \in 1..Len(list) |-> Stmt(k, list[i])]

\* the script as the list of its statements, in the order they are appended to s
_get_dymola_commands(s, f, working_directory, log_file, model_name, translate_only) ==
  LET head == <<Stmt("comment", working_directory), Stmt("remove", log_file),
                Stmt("openModel", "package.mo"), Stmt("OutputCPUtime", "true")>>
      d == s._simulator_
      run == IF translate_only THEN Stmt("translateModel", "modelInstance")
             ELSE Stmt("simulateModel",
                       <<Get(d, "t0"), Get(d, "t1"), Get(d, "solver"), Get(d, "eps"),
                         Get(d, "resultFile"), Get(d, "numberOfIntervals")>>)
      exit == IF s._exitSimulator THEN <<Stmt("exit", "")>> ELSE <<>>
  IN IF ~Has(s, "_preProcessing_") THEN Raises(s, f, "AttributeError")
     ELSE IF ~translate_only /\ ~Has(s, "_simulator_") THEN Raises(s, f, "AttributeError")
     ELSE IF ~Has(s, "_postProcessing_") THEN Raises(s, f, "AttributeError")
     ELSE IF ~Has(s, "_exitSimulator") THEN Raises(s, f, "AttributeError")
     ELSE Result(s, f, "none",
                 head \o Stmts("pre", s._preProcessing_)
                      \o <<Stmt("modelInstance", model_name), run>>
                      \o Stmts("post", s._postProcessing_)
                      \o <<Stmt("savelog", log_file)>> \o exit)

(* ---------------------- buildingspy.io.outputfile.get_errors_and_warnings *)

\* the error lines of the log, in the order of the log
get_errors_and_warnings(log) ==
  [errors |-> SelectSeq(log, LAMBDA li : li \in ErrorLines),
   warnings |-> SelectSeq(log, LAMBDA li : li \notin ErrorLines /\ li # "ok")]

(* -------------------------------------------------------- Dymola, continued *)

RECURSIVE WriteErrors(_, _, _)
\* for li in ret["errors"]: self._reporter.writeError(li)
WriteErrors(s, f, lines) ==
  IF lines = <<>> THEN Returns(s, f)
  ELSE Bind(writeError(s, f, Message("LogError", NoneDir, Head(lines))),
            LAMBDA s1, f1 : WriteErrors(s1, f1, Tail(lines)))

\* log: what worDir/simulator.log holds
_check_simulation_errors(s, f, worDir, log) ==
  LET ret == get_errors_and_warnings(log)
  IN IF ret.errors = <<>> THEN Returns(s, f)
     ELSE Bind(WriteErrors(s, f, ret.errors),
               LAMBDA s1, f1 : Raises(s1, f1, "IOError"))

\* super().deleteOutputFiles(), then super()._deleteFiles([resultFile + "_result.mat"])
Dymola_deleteOutputFiles(s, f) ==
  IF "deleteOutputFiles" \notin BaseMethods THEN Raises(s, f, "AttributeError")
  ELSE IF ~Has(s, "_simulator_") THEN Raises(s, f, "AttributeError")
  ELSE _deleteFiles(s, f, << <<Get(s._simulator_, "resultFile"), "_result.mat">> >>)

\* shutil.copytree(src, worDir): worDir is created as a copy of src
CopyTree(f, worDir) == [f EXCEPT !.wor = @ \cup {worDir}, !.copied = @ \cup {worDir}]

\* n: the temporary directory tempfile.mkdtemp makes.  The statements before the try
\* block: an exception of theirs leaves simulate()
Dymola_simulate(s, f, n) ==
  LET r0 == Dymola_deleteOutputFiles(s, f)
      r1 == Bind(r0, LAMBDA a, b : _create_worDir(a, b, n))
      Copy(a, b) == Returns(SetAttr(a, "_simulateDir_", r1.ret), CopyTree(b, r1.ret))
      r2 == Bind(r1, Copy)
      Declare(a, b) ==
        IF ~Resolves(a.cls, "_declare_parameters") THEN Raises(a, b, "AttributeError")
        ELSE Returns(a, b)
  IN Bind(r2, Declare)

(* ---------------------------------------------------------------- Optimica *)

Optimica__init__(s, f, modelName, outputDirectory, packagePath) ==
  LET r0 == _BaseSimulator__init__(s, f, InitKeywords("Optimica"),
                                   modelName, outputDirectory, packagePath)
      r1 == Bind(r0, LAMBDA a, b : setSolver(a, b, "CVode"))
      Last(s9, f9) == Returns(SetAttr(s9, "_MODELICA_EXE", "jm_ipython.sh"), f9)
  IN Bind(r1, Last)

\* [str(self._simulator_.get('resultFile')) + '.mat']
Optimica_deleteOutputFiles(s, f) ==
  IF ~Has(s, "_simulator_") THEN Raises(s, f, "AttributeError")
  ELSE _deleteFiles(s, f, << <<Get(s._simulator_, "resultFile"), ".mat">> >>)

\* the body of the try block: super()._runSimulation(...) and what follows it
Optimica_try(s, f, worDir) ==
  IF "_runSimulation" \notin BaseMethods THEN Raises(s, f, "AttributeError")
  ELSE IF ~Resolves(s.cls, "_check_simulation_errors") THEN Raises(s, f, "AttributeError")
  ELSE IF ~Resolves(s.cls, "_copyResultFiles") THEN Raises(s, f, "AttributeError")
  ELSE _deleteTemporaryDirectory(s, f, worDir)

\* n: the temporary directory tempfile.mkdtemp makes
Optimica_simulate(s, f, n) ==
  LET r0 == Optimica_deleteOutputFiles(s, f)
      r1 == Bind(r0, LAMBDA a, b : _create_worDir(a, b, n))
      worDir == r1.ret
      \* os.mkdir(worDir) when it does not exist; the package is not copied into it
      MkDir(a, b) == Returns(SetAttr(a, "_simulateDir_", worDir),
                             [b EXCEPT !.wor = @ \cup {worDir}])
      r2 == Bind(r1, MkDir)
      \* template.render(..., time_out=self._simulator_.get('time_out')), written to worDir
      Render(a, b) ==
        IF ~Has(a, "modelName") THEN Raises(a, b, "AttributeError")
        ELSE Returns(a, [b EXCEPT !.script = Script(worDir, Rendered(a._simulator_, "time_out"))])
      r3 == Bind(r2, Render)
      \* except Exception: self._reporter.writeError(em)
      Try(a, b) ==
        LET r == Optimica_try(a, b, worDir)
        IN IF r.exc = "none" THEN r
           ELSE writeError(r.self, r.fs, Message("SimulationFailed", worDir, r.exc))
  IN Bind(r3, Try)

(* ----------------------------------------------------------------- actions *)

\* the call of operation op with argument arg ended as r says
Finish(op, arg, r) ==
  /\ Len(r.self._reporter) <= MaxErrors
  /\ self' = r.self
  /\ fs' = r.fs
  /\ call' = [op |-> op, arg |-> arg, exc |-> r.exc, ret |-> r.ret]

\* c(modelName, outputDirectory, packagePath=packagePath)
Construct(c, modelName, outputDirectory, packagePath) ==
  /\ self.cls = "none"
  /\ LET s == NewInstance(c)
         r == CASE c = "_BaseSimulator" ->
                     _BaseSimulator__init__(s, fs, InitKeywords(c),
                                            modelName, outputDirectory, packagePath)
                [] c = "Dymola" -> Dymola__init__(s, fs, modelName, outputDirectory, packagePath)
                [] c = "Optimica" -> Optimica__init__(s, fs, modelName, outputDirectory, packagePath)
     IN Finish("__init__", <<c, modelName, outputDirectory, packagePath>>, r)
  /\ UNCHANGED <<nextTmp, simLog>>

Call_setPackagePath(p) ==
  /\ self.cls # "none"
  /\ Finish("setPackagePath", p, setPackagePath(self, fs, p))
  /\ UNCHANGED <<nextTmp, simLog>>

Call_getPackagePath ==
  /\ self.cls # "none"
  /\ Finish("getPackagePath", None, getPackagePath(self, fs))
  /\ UNCHANGED <<nextTmp, simLog>>

Call_setStartTime(t0) ==
  /\ self.cls # "none"
  /\ Finish("setStartTime", t0, setStartTime(self, fs, t0))
  /\ UNCHANGED <<nextTmp, simLog>>

Call_setStopTime(t1) ==
  /\ self.cls # "none"
  /\ Finish("setStopTime", t1, setStopTime(self, fs, t1))
  /\ UNCHANGED <<nextTmp, simLog>>

Call_setTolerance(eps) ==
  /\ self.cls # "none"
  /\ Finish("setTolerance", eps, setTolerance(self, fs, eps))
  /\ UNCHANGED <<nextTmp, simLog>>

Call_setSolver(solver) ==
  /\ self.cls # "none"
  /\ Finish("setSolver", solver, setSolver(self, fs, solver))
  /\ UNCHANGED <<nextTmp, simLog>>

Call_setTimeOut(sec) ==
  /\ self.cls # "none"
  /\ Finish("setTimeOut", sec, setTimeOut(self, fs, sec))
  /\ UNCHANGED <<nextTmp, simLog>>

Call_deleteSimulateDirectory ==
  /\ self.cls # "none"
  /\ Finish("deleteSimulateDirectory", None, deleteSimulateDirectory(self, fs))
  /\ UNCHANGED <<nextTmp, simLog>>

Call_create_worDir ==
  /\ self.cls # "none"
  /\ nextTmp <= MaxTmp
  /\ LET r == _create_worDir(self, fs, nextTmp)
     IN /\ Finish("_create_worDir", None, r)
        /\ nextTmp' = IF nextTmp \in r.fs.tmp THEN nextTmp + 1 ELSE nextTmp
  /\ UNCHANGED simLog

Call_deleteTemporaryDirectory(worDir) ==
  /\ self.cls # "none"
  /\ Finish("_deleteTemporaryDirectory", worDir, _deleteTemporaryDirectory(self, fs, worDir))
  /\ UNCHANGED <<nextTmp, simLog>>

Call_addPreProcessingStatement(command) ==
  /\ self.cls = "Dymola"
  /\ Len(self._preProcessing_) < MaxStmts
  /\ Finish("addPreProcessingStatement", command, addPreProcessingStatement(self, fs, command))
  /\ UNCHANGED <<nextTmp, simLog>>

Call_addPostProcessingStatement(command) ==
  /\ self.cls = "Dymola"
  /\ Len(self._postProcessing_) < MaxStmts
  /\ Finish("addPostProcessingStatement", command, addPostProcessingStatement(self, fs, command))
  /\ UNCHANGED <<nextTmp, simLog>>

Call_exitSimulator(exitAfterSimulation) ==
  /\ self.cls = "Dymola"
  /\ Finish("exitSimulator", exitAfterSimulation, exitSimulator(self, fs, exitAfterSimulation))
  /\ UNCHANGED <<nextTmp, simLog>>

Call_getParameters ==
  /\ self.cls = "Dymola"
  /\ Finish("getParameters", None, getParameters(self, fs))
  /\ UNCHANGED <<nextTmp, simLog>>

\* the call simulate() makes: log_file="simulator.log", translate_only=False
Call_get_dymola_commands ==
  /\ self.cls = "Dymola"
  /\ Finish("_get_dymola_commands", None,
            _get_dymola_commands(self, fs, "worDir", "simulator.log", "mi", FALSE))
  /\ UNCHANGED <<nextTmp, simLog>>

\* on a directory whose simulator.log holds simLog
Call_check_simulation_errors ==
  /\ self.cls = "Dymola"
  /\ Finish("_check_simulation_errors", None,
            _check_simulation_errors(self, fs, WorDir(0, "pkgA"), simLog))
  /\ UNCHANGED <<nextTmp, simLog>>

Call_simulate ==
  /\ self.cls \in {"Dymola", "Optimica"}
  /\ nextTmp <= MaxTmp
  /\ LET r == IF self.cls = "Dymola" THEN Dymola_simulate(self, fs, nextTmp)
              ELSE Optimica_simulate(self, fs, nextTmp)
     IN /\ Finish("simulate", None, r)
        /\ nextTmp' = IF nextTmp \in r.fs.tmp THEN nextTmp + 1 ELSE nextTmp
  /\ UNCHANGED simLog

Next ==
  \/ \E c \in Classes, m \in ModelNames, o \in OutDirArgs, p \in PathArgs \cup {None} :
        Construct(c, m, o, p)
  \/ \E p \in PathArgs : Call_setPackagePath(p)
  \/ Call_getPackagePath
  \/ \E t0 \in StartTimes : Call_setStartTime(t0)
  \/ \E t1 \in StopTimes : Call_setStopTime(t1)
  \/ \E eps \in Tolerances : Call_setTolerance(eps)
  \/ \E solver \in Solvers : Call_setSolver(solver)
  \/ \E sec \in TimeOuts : Call_setTimeOut(sec)
  \/ Call_deleteSimulateDirectory
  \/ Call_create_worDir
  \/ \E w \in {NoneDir, WorDir(0, "pkgA")} \cup {WorDir(n, d) : n \in 1..MaxTmp, d \in {"pkgA", "cwd"}} :
        Call_deleteTemporaryDirectory(w)
  \/ \E c \in Statements : Call_addPreProcessingStatement(c)
  \/ \E c \in Statements : Call_addPostProcessingStatement(c)
  \/ \E b \in BOOLEAN : Call_exitSimulator(b)
  \/ Call_getParameters
  \/ Call_get_dymola_commands
  \/ Call_check_simulation_errors
  \/ Call_simulate

Spec == Init /\ [][Next]_vars

(* ------------------------------------------------------------------ claims *)

\* the package path as getPackagePath() hands it back: <<>> when the call raises
StoredPath(s, f) ==
  LET r == getPackagePath(s, f) IN IF r.exc = "none" THEN <<r.ret>> ELSE <<r.exc>>

\* C4: setPackagePath(p) stores p as the package path exactly when p exists and is
\* a directory; otherwise it raises ValueError and the package path that
\* getPackagePath returns is the one it returned before the call.
C4_SetPackagePath ==
  [][call'.op = "setPackagePath" =>
       LET p == call'.arg
       IN IF p \in fs.dirs
          THEN call'.exc = "none" /\ StoredPath(self', fs') = <<p>>
          ELSE /\ call'.exc = "ValueError"
               /\ StoredPath(self', fs') = StoredPath(self, fs)
               /\ self' = self]_vars

\* C4 happens: a constructed simulator holding pkgB refused a path that is a
\* regular file and kept pkgB
C4_Witness ==
  /\ call.op = "setPackagePath"
  /\ call.arg = "file1"
  /\ call.exc = "ValueError"
  /\ "_reporter" \in self.attrs
  /\ StoredPath(self, fs) = <<"pkgB">>

\* C5 (as claimed): constructing Dymola or Optimica with the default output
\* directory and an existing package directory returns without raising, and
\* getParameters() of a Dymola simulator returns the empty list.
C5_ConstructionSucceeds ==
  /\ (call.op = "__init__" /\ call.arg[1] \in {"Dymola", "Optimica"}
        /\ call.arg[3] = "." /\ call.arg[4] \in InitDirs)
       => call.exc = "none"
  /\ call.op = "getParameters" => (call.exc = "none" /\ call.ret = EmptyDict)

\* C1 (as claimed): a Dymola.simulate() whose simulator.log holds no error line
\* returns with its temporary directory deleted and nothing written to the
\* reporter.
C1_SimulateCleansUp ==
  (call.op = "simulate" /\ self.cls = "Dymola"
     /\ get_errors_and_warnings(simLog).errors = <<>>)
    => /\ call.exc = "none"
       /\ Has(self, "_simulateDir_")
       /\ self._simulateDir_ # NoneDir
       /\ self._simulateDir_.tmp \notin fs.tmp
       /\ self._reporter = <<>>

\* the 'Simulation failed in <worDir>' messages the reporter holds for directory d
FailedMessages(s, d) ==
  {i \in 1..Len(s._reporter) :
     s._reporter[i].kind = "SimulationFailed" /\ s._reporter[i].dir = d}

SetterOf ==
  [t0 |-> "setStartTime", t1 |-> "setStopTime", eps |-> "setTolerance",
   solver |-> "setSolver", timeout |-> "setTimeOut"]

\* C6 (as claimed): after construction the settings are start time 0, stop time 1,
\* tolerance 1E-6, time-out -1 and solver radau; a setter stores its argument under
\* its own setting and leaves the rest of the simulator as it was.
C6_DefaultsAndSetters ==
  [][/\ (call'.op = "__init__" /\ call'.exc = "none") =>
          LET d == self'._simulator_
          IN /\ DOMAIN SetterOf \subseteq DOMAIN d
             /\ d["t0"] = 0 /\ d["t1"] = 1 /\ d["eps"] = "1E-6"
             /\ d["timeout"] = -1 /\ d["solver"] = "radau"
     /\ \A k \in DOMAIN SetterOf :
          call'.op = SetterOf[k] =>
            /\ call'.exc = "none"
            /\ self' = [self EXCEPT !._simulator_ = Update(@, k, call'.arg)]]_vars

\* the places of the statements of kind k in script sc
Places(sc, k) == {i \in 1..Len(sc) : sc[i].kind = k}

\* the texts of the statements of kind k in script sc, in the order of sc
Texts(sc, k) ==
  LET sel == SelectSeq(sc, LAMBDA st : st.kind = k)
  IN [i \in 1..Len(sel) |-> sel[i].text]

C8_OptimicaCopiesPackage ==
  (call.op = "simulate" /\ self.cls = "Optimica")
    => /\ Has(self, "_simulateDir_")
       /\ self._simulateDir_ # NoneDir
       /\ self._simulateDir_ \in fs.wor => self._simulateDir_ \in fs.copied

\* C9 (as claimed): the time-out Optimica.simulate() renders into the run script
\* is the value of the last setTimeOut call (-1 after construction).
C9_OptimicaTimeOut ==
  (call.op = "simulate" /\ self.cls = "Optimica")
    => /\ Has(self, "_simulator_")
       /\ fs.script.dir # NoneDir
       /\ fs.script.time_out = Rendered(self._simulator_, "timeout")
       /\ fs.script.time_out # <<>>

\* the last n messages of the reporter of s
LastMessages(s, n) ==
  IF n > Len(s._reporter) THEN <<>>
  ELSE SubSeq(s._reporter, Len(s._reporter) - n + 1, Len(s._reporter))

====
